---------------------------- MODULE Spec2Model ----------------------------
(***************************************************************************)
(* A model of exllamav2_ext/ext_stloader.cpp.                              *)
(*                                                                         *)
(*   stloader_read  : the orchestrator thread, the threads of the parallel *)
(*                    file read (lines 39-68), the strided load threads    *)
(*                    (lines 191-235), the copy workers (lines 131-186),   *)
(*                    the deque / mutex / condition variable they share    *)
(*                    and the asynchronous copies on each worker's stream. *)
(*   tensor_remap   : the row by row gather through a scratch row.         *)
(*   tensor_remap_4bit : the same gather over 4-bit elements packed eight  *)
(*                    to a 32-bit word.                                    *)
(*                                                                         *)
(* Every section of code that runs with the mutex held is one action.  A   *)
(* thread's private steps between two accesses to shared state are merged  *)
(* into the action of the access that follows them.                        *)
(*                                                                         *)
(* load_failed is a volatile bool written without the mutex (lines 175,    *)
(* 232) and read by other threads (lines 143, 144, 198): a data race.  A   *)
(* store to it is first buffered by the storing thread (pending) and       *)
(* reaches memory at a later, arbitrary moment (Flush); a thread reads its *)
(* own buffered store, every other thread reads memory.  A thread's store  *)
(* has reached memory when the thread has been joined.                     *)
(*                                                                         *)
(* The lambda load_worker (lines 82-124) is never called and is not        *)
(* modelled.  The statistics blocks_processed, blocks_copied and the       *)
(* printf calls have no effect on the behaviour and are left out.          *)
(***************************************************************************)
EXTENDS Integers, Sequences, FiniteSets

\* ------------------------------------------------------------------ bounds

\* STLOADER_THREADS, STLOADER_BLOCK_SIZE and STLOADER_COPY_THREADS are set in
\* ext_stloader.h; the model scales them down.
STLOADER_THREADS == 2
STLOADER_BLOCK_SIZE == 2
STLOADER_COPY_THREADS == 2
MaxSize == 5
MaxOffset == 1
MaxRows == 2
MaxCols == 3
MaxSeed == 1
MaxWords == 2

\* ----------------------------------------------------------------- helpers

Min(x, y) == IF x < y THEN x ELSE y

\* Content of a byte that holds nothing read from the file (the old content
\* of the target, fresh malloc memory, freed memory).
Junk == -1

\* The byte of the file at absolute position p.
FileByte(p) == (7 * p + 3) % 256

ThreadIdx == 0 .. (STLOADER_THREADS - 1)
CopyIdx == 0 .. (STLOADER_COPY_THREADS - 1)

\* Thread identities.
P1(i) == <<"p1", i>>
Ld(i) == <<"ld", i>>
Cw(w) == <<"cw", w>>

NoRange == <<0, 0>>

VARIABLES
    \* arguments of stloader_read
    size, offset, target_cpu,
    \* orchestrator
    pc,
    \* buffers
    host,          \* bytes at load_buffer
    dev,           \* bytes at cuda_buffer (device destination only)
    allocated,     \* malloc(size) returned a buffer
    freed,         \* free(load_buffer) was called
    cuda_null,     \* target.data_ptr() is a null pointer (empty device tensor)
    \* parallel file read
    p1pc, read_failed,
    \* strided load threads
    ldpc, pos_a,
    \* synchronization
    dq, load_failed, done_loading, pending,
    \* copy workers
    cwpc, cur, stream, copies, ncomplete,
    \* open FILE handles, by owning thread
    handles,
    \* history
    nread,         \* nread[k]: how many positioned reads were issued for byte k
    emitted,       \* emitted[i]: the ranges load thread i pushed, in order
    popped,        \* popped[w]: the ranges copy worker w popped, in order
    faults,        \* the kinds of failure that have happened
    late,          \* late[w]: copies worker w issued with load_failed true in memory
    loaded         \* loaded[i]: the blocks load thread i read in full, in order

args == <<size, offset, target_cpu, cuda_null>>
bufv == <<host, dev, allocated, freed, nread>>
p1v == <<p1pc, read_failed>>
ldv == <<ldpc, pos_a, emitted>>
syncv == <<dq, load_failed, done_loading, pending>>
cwv == <<cwpc, cur, stream, copies, ncomplete, popped>>

hist == <<faults, late, loaded>>

ldvars == <<args, pc, bufv, p1v, ldv, syncv, cwv, handles, hist>>

VARIABLES
    \* tensor_remap
    rpc,           \* position in tensor_remap
    rows, cols,    \* tensor.size(0), tensor.size(1)
    tensor,        \* the matrix, row-major: element (r, c) at r * cols + c
    index,         \* the index tensor
    temp,          \* the scratch row
    r, c, a,       \* the loop counters and the write pointer (as an offset)
    tensor0        \* history: the matrix before the call

rmvars == <<rpc, rows, cols, tensor, index, temp, r, c, a, tensor0>>

vars == <<ldvars, rmvars>>

Bytes == 0 .. (size - 1)

\* ---------------------------------------------------------- shared pieces

\* The value thread t reads from load_failed.
ReadFlag(t) == load_failed \/ t \in pending

\* load_failed = true has been executed by some thread.
FlagStored == load_failed \/ pending # {}

\* The read with the segment's file offset left out.
ReadInto_NoOffset(buf, start, n) ==
    [k \in DOMAIN buf |->
        IF start <= k /\ k < start + n THEN FileByte(k) ELSE buf[k]]

\* pread(fd, load_buffer + start, len, offset + start) that transfers n bytes.
ReadInto(buf, start, n) ==
    [k \in DOMAIN buf |->
        IF start <= k /\ k < start + n THEN FileByte(offset + k) ELSE buf[k]]

\* One more positioned read has been issued for the n bytes from start.
CountRead(cnt, start, n) ==
    [k \in DOMAIN cnt |->
        IF start <= k /\ k < start + n THEN cnt[k] + 1 ELSE cnt[k]]

\* cv.notify_one(): one of the threads blocked in cv.wait, if any, wakes up.
NotifyOne(p) ==
    IF \E w \in CopyIdx : p[w] = "blocked"
    THEN {[p EXCEPT ![w] = "wait"] : w \in {x \in CopyIdx : p[x] = "blocked"}}
    ELSE {p}

\* No waiter is woken.
NotifyAll_None(p) == p

\* cv.notify_all()
NotifyAll(p) == [w \in CopyIdx |-> IF p[w] = "blocked" THEN "wait" ELSE p[w]]

\* ------------------------------------------------------------------- Init

RemapIdle ==
    /\ rpc = "idle"
    /\ rows = 0
    /\ cols = 0
    /\ tensor = <<>>
    /\ tensor0 = <<>>
    /\ index = <<>>
    /\ temp = <<>>
    /\ r = 0
    /\ c = 0
    /\ a = 0

\* The state of stloader_read at position p, before any of its threads
\* exists.
LoaderAt(p) ==
    /\ pc = p
    /\ host = [k \in Bytes |-> Junk]
    /\ dev = [k \in Bytes |-> Junk]
    /\ allocated = FALSE
    /\ freed = FALSE
    /\ p1pc = [i \in ThreadIdx |-> "idle"]
    /\ read_failed = FALSE
    /\ ldpc = [i \in ThreadIdx |-> "idle"]
    /\ pos_a = [i \in ThreadIdx |-> 0]
    /\ dq = <<>>
    /\ load_failed = FALSE
    /\ done_loading = FALSE
    /\ pending = {}
    /\ cwpc = [w \in CopyIdx |-> "idle"]
    /\ cur = [w \in CopyIdx |-> NoRange]
    /\ stream = [w \in CopyIdx |-> "none"]
    /\ copies = [w \in CopyIdx |-> <<>>]
    /\ ncomplete = [w \in CopyIdx |-> 0]
    /\ handles = {}
    /\ nread = [k \in Bytes |-> 0]
    /\ emitted = [i \in ThreadIdx |-> <<>>]
    /\ popped = [w \in CopyIdx |-> <<>>]
    /\ faults = {}
    /\ late = [w \in CopyIdx |-> 0]
    /\ loaded = [i \in ThreadIdx |-> <<>>]

\* No call of stloader_read.
LoaderIdle ==
    /\ size = 0
    /\ offset = 0
    /\ target_cpu = TRUE
    /\ cuda_null = FALSE
    /\ LoaderAt("idle")

\* A call of stloader_read: a segment of size bytes at offset, a target on
\* the CPU or on a device.  Only an empty device tensor can have a null
\* data pointer.
Init ==
    /\ size \in 0 .. MaxSize
    /\ offset \in 0 .. MaxOffset
    /\ target_cpu \in BOOLEAN
    /\ cuda_null \in {b \in BOOLEAN : b => (size = 0 /\ ~target_cpu)}
    /\ LoaderAt("alloc")
    /\ RemapIdle

\* ----------------------------------------------------------- orchestrator

\* Lines 19-37: choose the buffers.  malloc may return a null pointer, and
\* TORCH_CHECK then throws before any thread is started.
Alloc ==
    /\ pc = "alloc"
    /\ IF target_cpu
       THEN /\ pc' = "read"
            /\ UNCHANGED <<allocated, faults>>
       ELSE \/ /\ allocated' = TRUE
               /\ pc' = "read"
               /\ UNCHANGED faults
            \/ /\ UNCHANGED allocated
               /\ faults' = faults \cup {"alloc"}
               /\ pc' = "threw_alloc"
    /\ UNCHANGED <<late, loaded>>
    /\ UNCHANGED <<args, host, dev, freed, nread, p1v, ldv, syncv, cwv, handles>>
    /\ UNCHANGED rmvars

\* Lines 40-66: start the threads of the parallel file read.
chunk_size == (size + STLOADER_THREADS - 1) \div STLOADER_THREADS
ChunkStart(i) == i * chunk_size
ChunkEnd(i) == Min(ChunkStart(i) + chunk_size, size)

StartParallelRead ==
    /\ pc = "read"
    /\ p1pc' = [i \in ThreadIdx |-> "start"]
    /\ pc' = "join_read"
    /\ UNCHANGED <<args, bufv, read_failed, ldv, syncv, cwv, handles>>
    /\ UNCHANGED <<hist, rmvars>>

\* Lines 47-54: an empty chunk returns at once; otherwise fopen.
P1Open(i) ==
    /\ p1pc[i] = "start"
    /\ IF ChunkStart(i) >= ChunkEnd(i)
       THEN /\ p1pc' = [p1pc EXCEPT ![i] = "done"]
            /\ UNCHANGED <<read_failed, handles, faults>>
       ELSE \/ /\ handles' = handles \cup {P1(i)}
               /\ p1pc' = [p1pc EXCEPT ![i] = "opened"]
               /\ UNCHANGED <<read_failed, faults>>
            \/ /\ read_failed' = TRUE
               /\ faults' = faults \cup {"open"}
               /\ p1pc' = [p1pc EXCEPT ![i] = "done"]
               /\ UNCHANGED handles
    /\ UNCHANGED <<args, pc, bufv, ldv, syncv, cwv, late, loaded>>
    /\ UNCHANGED rmvars

\* Lines 55-64: the positioned read of the chunk, then fclose.  n is the
\* number of bytes transferred; n below the chunk length is a short read
\* (n = 0 also stands for the failed _fseeki64 of the other build, which
\* closes the file and returns in the same way).
P1Read(i) ==
    /\ p1pc[i] = "opened"
    /\ \E n \in 0 .. (ChunkEnd(i) - ChunkStart(i)) :
          /\ host' = ReadInto(host, ChunkStart(i), n)
          /\ nread' = CountRead(nread, ChunkStart(i), ChunkEnd(i) - ChunkStart(i))
          /\ read_failed' = (read_failed \/ n # ChunkEnd(i) - ChunkStart(i))
          /\ faults' = IF n # ChunkEnd(i) - ChunkStart(i)
                        THEN faults \cup {"read"} ELSE faults
    /\ handles' = handles \ {P1(i)}
    /\ p1pc' = [p1pc EXCEPT ![i] = "done"]
    /\ UNCHANGED <<args, pc, dev, allocated, freed, ldv, syncv, cwv, late, loaded>>
    /\ UNCHANGED rmvars

\* Lines 67-68: join, then TORCH_CHECK(!read_failed, ...).
JoinParallelRead ==
    /\ pc = "join_read"
    /\ \A i \in ThreadIdx : p1pc[i] = "done"
    /\ pc' = IF read_failed THEN "threw_read" ELSE "spawn"
    /\ UNCHANGED <<args, bufv, p1v, ldv, syncv, cwv, handles>>
    /\ UNCHANGED <<hist, rmvars>>

\* Line 191: load thread i is created when i * STLOADER_BLOCK_SIZE < size.
LoadStarted(i) == i * STLOADER_BLOCK_SIZE < size

\* The copy workers started whatever the target.
CopyStarted_Always == TRUE

\* Line 238: if (cuda_buffer)
CopyStarted == ~target_cpu /\ ~cuda_null

\* Lines 133-136: cudaSetDevice and cudaStreamCreateWithFlags, the private
\* prologue of a copy worker, counted with the creation of its thread.
CreateStreams == [w \in CopyIdx |-> IF CopyStarted THEN "live" ELSE "none"]

\* Lines 188-242: create the load threads, then the copy workers.
StartWorkers ==
    /\ pc = "spawn"
    /\ ldpc' = [i \in ThreadIdx |-> IF LoadStarted(i) THEN "open" ELSE "idle"]
    /\ pos_a' = [i \in ThreadIdx |-> i * STLOADER_BLOCK_SIZE]
    /\ cwpc' = [w \in CopyIdx |-> IF CopyStarted THEN "wait" ELSE "idle"]
    /\ stream' = CreateStreams
    /\ pc' = "join_load"
    /\ UNCHANGED <<args, bufv, p1v, emitted, syncv, cur, copies, ncomplete, popped,
                   handles>>
    /\ UNCHANGED <<hist, rmvars>>


\* ----------------------------------------------------------- load threads

\* Lines 200-201: the end of the block that starts at pos_a.
PosB(i) == Min(pos_a[i] + STLOADER_BLOCK_SIZE, size)

\* Lines 195-196: fopen; a null FILE* goes to error: (line 232), which stores
\* load_failed and ends the thread.
LdOpen(i) ==
    /\ ldpc[i] = "open"
    /\ \/ /\ handles' = handles \cup {Ld(i)}
          /\ ldpc' = [ldpc EXCEPT ![i] = "loop"]
          /\ UNCHANGED <<pending, faults>>
       \/ /\ pending' = pending \cup {Ld(i)}
          /\ faults' = faults \cup {"open"}
          /\ ldpc' = [ldpc EXCEPT ![i] = "done"]
          /\ UNCHANGED handles
    /\ UNCHANGED <<args, pc, bufv, p1v, pos_a, emitted, dq, load_failed,
                   done_loading, cwv, late, loaded>>
    /\ UNCHANGED rmvars

\* The loop of a load thread without its test of load_failed.
LoopCond_NoFlag(i) == pos_a[i] < size

\* Line 198: while (pos_a < size && !load_failed)
LoopCond(i) == pos_a[i] < size /\ ~ReadFlag(Ld(i))

\* The result of the read not tested.
ReadOk_Unchecked(i, n) == TRUE

\* Line 205: if (br != pos_b - pos_a) goto error;
ReadOk(i, n) == n = PosB(i) - pos_a[i]

\* Lines 198-212 and 224-232: the loop test, then the positioned read of the
\* block.  n is the number of bytes transferred: n below the block length is
\* a short read (n = 0 also stands for the failed _fseeki64 of the other
\* build) and goes to error:, which stores load_failed and ends the thread
\* with the file still open.  When the loop test fails the file is closed
\* and the thread ends.
LdIter(i) ==
    /\ ldpc[i] = "loop"
    /\ IF LoopCond(i)
       THEN \E n \in 0 .. (PosB(i) - pos_a[i]) :
              /\ host' = ReadInto(host, pos_a[i], n)
              /\ nread' = CountRead(nread, pos_a[i], PosB(i) - pos_a[i])
              /\ loaded' = IF n = PosB(i) - pos_a[i]
                            THEN [loaded EXCEPT ![i] = Append(@, <<pos_a[i], PosB(i)>>)]
                            ELSE loaded
              /\ IF ReadOk(i, n)
                 THEN /\ ldpc' = [ldpc EXCEPT ![i] = "push"]
                      /\ UNCHANGED <<pending, faults>>
                 ELSE /\ ldpc' = [ldpc EXCEPT ![i] = "done"]
                      /\ pending' = pending \cup {Ld(i)}
                      /\ faults' = faults \cup {"read"}
              /\ UNCHANGED handles
       ELSE /\ handles' = handles \ {Ld(i)}
            /\ ldpc' = [ldpc EXCEPT ![i] = "done"]
            /\ UNCHANGED <<host, nread, pending, faults, loaded>>
    /\ UNCHANGED <<args, pc, dev, allocated, freed, p1v, pos_a, emitted, dq,
                   load_failed, done_loading, cwv, late>>
    /\ UNCHANGED rmvars

\* The stride of one block instead of one block per load thread.
NextPos_OneBlock(i) == pos_a[i] + STLOADER_BLOCK_SIZE

\* Lines 214-221: with the mutex held push (pos_a, pos_b) and notify one
\* waiter; then advance pos_a by STLOADER_THREADS * STLOADER_BLOCK_SIZE.
NextPos(i) == pos_a[i] + STLOADER_THREADS * STLOADER_BLOCK_SIZE

LdPush(i) ==
    /\ ldpc[i] = "push"
    /\ dq' = Append(dq, <<pos_a[i], PosB(i)>>)
    /\ emitted' = [emitted EXCEPT ![i] = Append(@, <<pos_a[i], PosB(i)>>)]
    /\ cwpc' \in NotifyOne(cwpc)
    /\ pos_a' = [pos_a EXCEPT ![i] = NextPos(i)]
    /\ ldpc' = [ldpc EXCEPT ![i] = "loop"]
    /\ UNCHANGED <<args, pc, bufv, p1v, load_failed, done_loading, pending,
                   cur, stream, copies, ncomplete, popped, handles>>
    /\ UNCHANGED <<hist, rmvars>>

\* The buffered store of thread t to load_failed reaches memory.
Flush(t) ==
    /\ t \in pending
    /\ load_failed' = TRUE
    /\ pending' = pending \ {t}
    /\ UNCHANGED <<args, pc, bufv, p1v, ldv, dq, done_loading, cwv, handles>>
    /\ UNCHANGED <<hist, rmvars>>

\* ----------------------------------------------------------- copy workers

\* Line 143: the predicate of cv.wait.
WaitPred(w) == dq # <<>> \/ ReadFlag(Cw(w)) \/ done_loading

\* The copy worker without its test of load_failed.
FailSeen_Never(w) == FALSE

\* Line 144: if (load_failed) break;
FailSeen(w) == ReadFlag(Cw(w))

\* The popped range extended over the adjacent ranges that follow it in the
\* deque (the coalescing loop of lines 156-161), with the deque left as it is.
RECURSIVE CoalescedEnd(_, _)
CoalescedEnd(q, b) ==
    IF q # <<>> /\ Head(q)[1] = b THEN CoalescedEnd(Tail(q), Head(q)[2]) ELSE b

PopRange_Coalesced == <<Head(dq)[1], CoalescedEnd(Tail(dq), Head(dq)[2])>>

\* Lines 150-153: the range taken from the deque, and the deque left behind
\* (one entry per wake-up; the coalescing loop of lines 156-161 is disabled).
PopRange == Head(dq)
PopRest == Tail(dq)

\* Lines 138-162.  With the mutex held: block while the predicate is false;
\* otherwise break on load_failed, break on an empty deque when loading is
\* done, go round the loop again on an empty deque otherwise (line 147), or
\* pop one range.
CwWait(w) ==
    /\ cwpc[w] = "wait"
    /\ IF ~WaitPred(w)
       THEN /\ cwpc' = [cwpc EXCEPT ![w] = "blocked"]
            /\ UNCHANGED <<dq, cur, popped>>
       ELSE IF FailSeen(w) \/ (dq = <<>> /\ done_loading)
       THEN /\ cwpc' = [cwpc EXCEPT ![w] = "sync"]
            /\ UNCHANGED <<dq, cur, popped>>
       ELSE IF dq = <<>>
       THEN UNCHANGED <<cwpc, dq, cur, popped>>
       ELSE /\ cur' = [cur EXCEPT ![w] = PopRange]
            /\ popped' = [popped EXCEPT ![w] = Append(@, PopRange)]
            /\ dq' = PopRest
            /\ cwpc' = [cwpc EXCEPT ![w] = "copy"]
    /\ UNCHANGED <<args, pc, bufv, p1v, ldv, load_failed, done_loading, pending,
                   stream, copies, ncomplete, handles>>
    /\ UNCHANGED <<hist, rmvars>>

\* A thread blocked in cv.wait may wake without a notification; it then
\* evaluates the predicate again.
SpuriousWake(w) ==
    /\ cwpc[w] = "blocked"
    /\ cwpc' = [cwpc EXCEPT ![w] = "wait"]
    /\ UNCHANGED <<args, pc, bufv, p1v, ldv, syncv, cur, stream, copies,
                   ncomplete, popped, handles>>
    /\ UNCHANGED <<hist, rmvars>>

\* Lines 164-180: cudaMemcpyAsync of the popped range on the worker's own
\* stream.  On success the copy is queued on the stream and the loop goes
\* on; on an error load_failed is stored and the loop is left.
CwCopy(w) ==
    /\ cwpc[w] = "copy"
    /\ \/ /\ copies' = [copies EXCEPT ![w] = Append(@, cur[w])]
          /\ cur' = [cur EXCEPT ![w] = NoRange]
          /\ cwpc' = [cwpc EXCEPT ![w] = "wait"]
          /\ late' = [late EXCEPT ![w] = IF load_failed THEN @ + 1 ELSE @]
          /\ UNCHANGED <<pending, faults>>
       \/ /\ pending' = pending \cup {Cw(w)}
          /\ faults' = faults \cup {"copy"}
          /\ cwpc' = [cwpc EXCEPT ![w] = "sync"]
          /\ UNCHANGED <<copies, cur, late>>
    /\ UNCHANGED <<args, pc, bufv, p1v, ldv, dq, load_failed, done_loading,
                   stream, ncomplete, popped, handles, loaded>>
    /\ UNCHANGED rmvars

\* The bytes a copy of range rg moves: the content of load_buffer when the
\* transfer runs.
Transfer(rg) ==
    [k \in DOMAIN dev |->
        IF rg[1] <= k /\ k < rg[2] THEN host[k] ELSE dev[k]]

\* The device completes the oldest queued copy of worker w's stream.
CopyComplete(w) ==
    /\ ncomplete[w] < Len(copies[w])
    /\ dev' = Transfer(copies[w][ncomplete[w] + 1])
    /\ ncomplete' = [ncomplete EXCEPT ![w] = @ + 1]
    /\ UNCHANGED <<args, pc, host, allocated, freed, nread, p1v, ldv, syncv,
                   cwpc, cur, stream, copies, popped, handles>>
    /\ UNCHANGED <<hist, rmvars>>

\* The stream destroyed without waiting for its copies.
StreamSynchronized_NoWait(w) == TRUE

\* Line 184: cudaStreamSynchronize returns when every copy queued on the
\* worker's stream has completed.
StreamSynchronized(w) == ncomplete[w] = Len(copies[w])

\* Lines 182-186: after the loop, synchronize the stream, destroy it, end.
CwFinish(w) ==
    /\ cwpc[w] = "sync"
    /\ StreamSynchronized(w)
    /\ stream' = [stream EXCEPT ![w] = "destroyed"]
    /\ cwpc' = [cwpc EXCEPT ![w] = "done"]
    /\ UNCHANGED <<args, pc, bufv, p1v, ldv, syncv, cur, copies, ncomplete,
                   popped, handles>>
    /\ UNCHANGED <<hist, rmvars>>

\* ------------------------------------------------- orchestrator, continued

\* The orchestrator going on without joining the load threads.
LoadJoined_NoWait == TRUE

\* Lines 245-246 and 264-265: join returns when the thread has ended, and
\* everything the thread stored is then in memory.
LoadJoined == \A i \in ThreadIdx : ldpc[i] \in {"idle", "done"} /\ Ld(i) \notin pending
\* The orchestrator going on without joining the copy workers.
CopyJoined_NoWait == TRUE

CopyJoined == \A w \in CopyIdx : cwpc[w] \in {"idle", "done"} /\ Cw(w) \notin pending

\* Lines 244-261: join the load threads, then set done_loading with the
\* mutex held and notify all waiters.
SignalDone ==
    /\ pc = "join_load"
    /\ LoadJoined
    /\ done_loading' = TRUE
    /\ cwpc' = NotifyAll(cwpc)
    /\ pc' = "join_copy"
    /\ UNCHANGED <<args, bufv, p1v, ldv, dq, load_failed, pending, cur, stream,
                   copies, ncomplete, popped, handles>>
    /\ UNCHANGED <<hist, rmvars>>

\* The end of the call without the test of load_failed.
AfterJoin_NoCheck == IF ~target_cpu THEN "free" ELSE "returned"

\* Lines 278-280: TORCH_CHECK(!load_failed, ...) throws; otherwise the
\* staging buffer is freed when the target is not on the CPU.
AfterJoin ==
    IF load_failed THEN "threw_io"
    ELSE IF ~target_cpu THEN "free" ELSE "returned"

\* Lines 263-280: join the copy workers, then check load_failed.
JoinCopy ==
    /\ pc = "join_copy"
    /\ CopyJoined
    /\ pc' = AfterJoin
    /\ UNCHANGED <<args, bufv, p1v, ldv, syncv, cwv, handles>>
    /\ UNCHANGED <<hist, rmvars>>

\* Line 282: free(load_buffer).
Free ==
    /\ pc = "free"
    /\ freed' = TRUE
    /\ host' = [k \in Bytes |-> Junk]
    /\ pc' = "devsync"
    /\ UNCHANGED <<args, dev, allocated, nread, p1v, ldv, syncv, cwv, handles>>
    /\ UNCHANGED <<hist, rmvars>>

\* Line 283: cudaDeviceSynchronize returns when no copy is outstanding.
DeviceSync ==
    /\ pc = "devsync"
    /\ \A w \in CopyIdx : ncomplete[w] = Len(copies[w])
    /\ pc' = "returned"
    /\ UNCHANGED <<args, bufv, p1v, ldv, syncv, cwv, handles>>
    /\ UNCHANGED <<hist, rmvars>>

\* stloader_read has returned or thrown.
Returned == pc = "returned"
Threw == pc \in {"threw_alloc", "threw_read", "threw_io"}
Finished == Returned \/ Threw

Threads ==
    {P1(i) : i \in ThreadIdx} \cup {Ld(i) : i \in ThreadIdx} \cup {Cw(w) : w \in CopyIdx}

Next ==
    \/ Alloc
    \/ StartParallelRead
    \/ \E i \in ThreadIdx : P1Open(i)
    \/ \E i \in ThreadIdx : P1Read(i)
    \/ JoinParallelRead
    \/ StartWorkers
    \/ \E i \in ThreadIdx : LdOpen(i)
    \/ \E i \in ThreadIdx : LdIter(i)
    \/ \E i \in ThreadIdx : LdPush(i)
    \/ \E t \in Threads : Flush(t)
    \/ \E w \in CopyIdx : CwWait(w)
    \/ \E w \in CopyIdx : SpuriousWake(w)
    \/ \E w \in CopyIdx : CwCopy(w)
    \/ \E w \in CopyIdx : CopyComplete(w)
    \/ \E w \in CopyIdx : CwFinish(w)
    \/ SignalDone
    \/ JoinCopy
    \/ Free
    \/ DeviceSync

Spec == Init /\ [][Next]_vars

\* Every thread that can take a step eventually takes one (the threads are
\* real OS threads).  A thread's buffered store eventually reaches memory
\* and the copies queued on a worker's stream are eventually completed by
\* the device; both are counted with the steps of the owning thread.  A
\* wake-up without a notification is possible but never guaranteed.
Orchestrator ==
    \/ Alloc \/ StartParallelRead \/ JoinParallelRead \/ StartWorkers
    \/ SignalDone \/ JoinCopy \/ Free \/ DeviceSync

ReadThread(i) == P1Open(i) \/ P1Read(i)
LoadThread(i) == LdOpen(i) \/ LdIter(i) \/ LdPush(i) \/ Flush(Ld(i))
CopyWorker(w) ==
    \/ CwWait(w) \/ CwCopy(w) \/ CwFinish(w)
    \/ CopyComplete(w) \/ Flush(Cw(w))

Fairness ==
    /\ WF_vars(Orchestrator)
    /\ \A i \in ThreadIdx : WF_vars(ReadThread(i))
    /\ \A i \in ThreadIdx : WF_vars(LoadThread(i))
    /\ \A w \in CopyIdx : WF_vars(CopyWorker(w))

\* The file offset only selects the bytes that are read; it has no part in
\* the control flow, and the fair behaviours are explored for offset 0.
FairInit == Init /\ offset = 0

FairSpec == FairInit /\ [][Next]_vars /\ Fairness

\* ------------------------------------------------------------ tensor_remap

\* The input matrices: n elements, element p holding 10 + seed * p (all
\* equal for seed 0, all different otherwise).  The elements are only moved,
\* never computed with, so small values stand for the 32-bit ones.
Matrix(seed, n) == [p \in 0 .. (n - 1) |-> 10 + seed * p]

\* A call of tensor_remap: a matrix of rows x cols elements and an index
\* whose entries are in [0, cols); or the call of the documented example,
\* one row 10 .. 17 with the index 7 .. 0.
RemapInit ==
    /\ LoaderIdle
    /\ rpc = "start"
    /\ \/ /\ rows \in 0 .. MaxRows
          /\ cols \in 0 .. MaxCols
          /\ \E seed \in 0 .. MaxSeed : tensor = Matrix(seed, rows * cols)
          /\ \E n \in 0 .. MaxCols : index \in [0 .. (n - 1) -> 0 .. (cols - 1)]
       \/ /\ rows = 1
          /\ cols = 8
          /\ tensor = Matrix(1, 8)
          /\ index = [j \in 0 .. 7 |-> 7 - j]
    /\ tensor0 = tensor
    /\ temp = <<>>
    /\ r = 0
    /\ c = 0
    /\ a = 0

\* TORCH_CHECK_SHAPES(tensor, 1, index, 0, 1) of cpp/util.h:
\* tensor.size(1) == index.size(0) * 1.
ShapesOk == cols = Cardinality(DOMAIN index) * 1

\* Lines 295-303: the shape check, then calloc of the scratch row.
RemapEnter ==
    /\ rpc = "start"
    /\ IF ShapesOk
       THEN /\ temp' = [j \in 0 .. (cols - 1) |-> 0]
            /\ rpc' = "row"
       ELSE /\ rpc' = "threw_shape"
            /\ UNCHANGED temp
    /\ UNCHANGED <<rows, cols, tensor, index, r, c, a, tensor0>>
    /\ UNCHANGED ldvars

\* Lines 305-307 and 313: the row loop's test, then memcpy of the row at a
\* into the scratch row; after the last row, free(temp).
RemapRow ==
    /\ rpc = "row"
    /\ IF r < rows
       THEN /\ temp' = [j \in 0 .. (cols - 1) |-> tensor[a + j]]
            /\ c' = 0
            /\ rpc' = "col"
       ELSE /\ temp' = <<>>
            /\ rpc' = "done"
            /\ UNCHANGED c
    /\ UNCHANGED <<rows, cols, tensor, index, r, a, tensor0>>
    /\ UNCHANGED ldvars

\* The element gathered straight from the matrix, without the scratch row.
GatherElem_NoScratch(cc) == tensor[r * cols + index[cc]]

\* Line 310: temp[idx[c]]
GatherElem(cc) == temp[index[cc]]

\* Lines 308-311: the column loop's test, then *a++ = temp[idx[c]].
RemapCol ==
    /\ rpc = "col"
    /\ IF c < cols
       THEN /\ tensor' = [tensor EXCEPT ![a] = GatherElem(c)]
            /\ a' = a + 1
            /\ c' = c + 1
            /\ UNCHANGED <<r, rpc>>
       ELSE /\ r' = r + 1
            /\ rpc' = "row"
            /\ UNCHANGED <<tensor, a, c>>
    /\ UNCHANGED <<rows, cols, index, temp, tensor0>>
    /\ UNCHANGED ldvars

RemapNext == RemapEnter \/ RemapRow \/ RemapCol

RemapSpec == RemapInit /\ [][RemapNext]_vars

\* -------------------------------------------------------- tensor_remap_4bit

\* A 32-bit word is held as its eight 4-bit fields, field k being bits
\* 4k .. 4k+3: every operation of tensor_remap_4bit on a word is a shift by a
\* multiple of 4, a mask with 0x0f or an or, all of which act field by field.
Fields == 0 .. 7
ZeroWord == [k \in Fields |-> 0]

\* The packed input matrices: n words, logical element e (field e % 8 of
\* word e / 8) holding (1 + seed * e) % 16.
Packed(seed, n) ==
    [p \in 0 .. (n - 1) |-> [k \in Fields |-> (1 + seed * (8 * p + k)) % 16]]

\* The index tensors of length n: c -> (m * c + s) % n, which gives the
\* identity (m = 1, s = 0), the reversal (m = n - 1, s = n - 1), rotations,
\* other permutations, and maps that are not one to one.
Affine(m, s, n) == [j \in 0 .. (n - 1) |-> (m * j + s) % n]

\* A call of tensor_remap_4bit: a matrix of rows x cols words and an index of
\* 8 * k entries, each in [0, 8 * k).
Remap4Init ==
    /\ LoaderIdle
    /\ rpc = "start4"
    /\ rows \in 0 .. MaxRows
    /\ cols \in 0 .. MaxWords
    /\ \E seed \in 0 .. MaxSeed : tensor = Packed(seed, rows * cols)
    /\ \E k \in 0 .. MaxWords : \E m \in 0 .. 8 * k : \E s \in 0 .. 8 * k :
          index = Affine(m, s, 8 * k)
    /\ tensor0 = tensor
    /\ temp = <<>>
    /\ r = 0
    /\ c = 0
    /\ a = 0

\* Line 326: int cols = index.size(0), the number of logical elements of a
\* row.
cols4 == Cardinality(DOMAIN index)

\* TORCH_CHECK_SHAPES(index, 0, tensor, 1, 8) of cpp/util.h:
\* index.size(0) == tensor.size(1) * 8.
ShapesOk4 == cols4 = cols * 8

\* Lines 322-327: the shape check, then calloc of cols / 8 scratch words.
Remap4Enter ==
    /\ rpc = "start4"
    /\ IF ShapesOk4
       THEN /\ temp' = [j \in 0 .. (cols4 \div 8 - 1) |-> ZeroWord]
            /\ rpc' = "row4"
       ELSE /\ rpc' = "threw_shape4"
            /\ UNCHANGED temp
    /\ UNCHANGED <<rows, cols, tensor, index, r, c, a, tensor0>>
    /\ UNCHANGED ldvars

\* Lines 331-333 and 347: the row loop's test, then memcpy of the cols / 8
\* words at a into the scratch row; after the last row, free(temp).
Remap4Row ==
    /\ rpc = "row4"
    /\ IF r < rows
       THEN /\ temp' = [j \in 0 .. (cols4 \div 8 - 1) |-> tensor[a + j]]
            /\ c' = 0
            /\ rpc' = "word4"
       ELSE /\ temp' = <<>>
            /\ rpc' = "done4"
            /\ UNCHANGED c
    /\ UNCHANGED <<rows, cols, tensor, index, r, a, tensor0>>
    /\ UNCHANGED ldvars

\* The bitwise or of two 4-bit values.
Bit(v, k) == (v \div (2 ^ k)) % 2
Or4(v, w) ==
    (IF Bit(v, 0) + Bit(w, 0) > 0 THEN 1 ELSE 0)
  + (IF Bit(v, 1) + Bit(w, 1) > 0 THEN 2 ELSE 0)
  + (IF Bit(v, 2) + Bit(w, 2) > 0 THEN 4 ELSE 0)
  + (IF Bit(v, 3) + Bit(w, 3) > 0 THEN 8 ELSE 0)

\* The element taken from the scratch word the output word belongs to,
\* whatever word the index points into.
Unpack_SameWord(i) == temp[c \div 8][i % 8]

\* Line 340: (temp[i / 8] >> ((i & 7) * 4)) & 0x0f
Unpack(i) == temp[i \div 8][i % 8]

\* The value or-ed into the lowest field, without the shift.
OrShift_NoShift(rv, v, b) == [rv EXCEPT ![0] = Or4(@, v)]

\* Line 341: rv |= v << (b * 4)
OrShift(rv, v, b) == [rv EXCEPT ![b] = Or4(@, v)]

\* Lines 337-342: rv after the iterations b .. 7 of the inner loop, which
\* start with rv = rv0 and the column counter at cc.
RECURSIVE PackFrom(_, _, _)
PackFrom(rv0, cc, b) ==
    IF b < 8
    THEN PackFrom(OrShift(rv0, Unpack(index[cc]), b), cc + 1, b + 1)
    ELSE rv0

\* Lines 334-345: the column loop's test; then one output word is built from
\* eight gathered elements and stored through a.
Remap4Word ==
    /\ rpc = "word4"
    /\ IF c < cols4
       THEN /\ tensor' = [tensor EXCEPT ![a] = PackFrom(ZeroWord, c, 0)]
            /\ a' = a + 1
            /\ c' = c + 8
            /\ UNCHANGED <<r, rpc>>
       ELSE /\ r' = r + 1
            /\ rpc' = "row4"
            /\ UNCHANGED <<tensor, a, c>>
    /\ UNCHANGED <<rows, cols, index, temp, tensor0>>
    /\ UNCHANGED ldvars

Remap4Next == Remap4Enter \/ Remap4Row \/ Remap4Word

Remap4Spec == Remap4Init /\ [][Remap4Next]_vars

\* A call of either routine.
RemapAnyInit == RemapInit \/ Remap4Init
RemapAnyNext == RemapNext \/ Remap4Next
RemapAnySpec == RemapAnyInit /\ [][RemapAnyNext]_vars

\* ------------------------------------------------------------- properties

\* The destination buffer: the target's own memory on the CPU path, the
\* device memory otherwise.
Dest == IF target_cpu THEN host ELSE dev

PushIdx == {<<i, j>> \in ThreadIdx \X (1 .. MaxSize + 1) : j <= Len(emitted[i])}
PopIdx == {<<w, j>> \in CopyIdx \X (1 .. MaxSize + 1) : j <= Len(popped[w])}
CopyIdxs == {<<w, j>> \in CopyIdx \X (1 .. MaxSize + 1) : j <= Len(copies[w])}

PushedRanges == {emitted[x[1]][x[2]] : x \in PushIdx}
PushCount(rg) == Cardinality({x \in PushIdx : emitted[x[1]][x[2]] = rg})
PopCount(rg) == Cardinality({x \in PopIdx : popped[x[1]][x[2]] = rg})
CopyCount(rg) == Cardinality({x \in CopyIdxs : copies[x[1]][x[2]] = rg})

AllCopiesComplete == \A w \in CopyIdx : ncomplete[w] = Len(copies[w])
LoadThreadsEnded == \A i \in ThreadIdx : ldpc[i] \in {"idle", "done"}
CopyWorkersEnded == \A w \in CopyIdx : cwpc[w] \in {"idle", "done"}

\* The load threads have been joined.
LoadersJoined == pc \in {"join_copy", "free", "devsync", "returned", "threw_io"}

\* C1: whenever stloader_read returns successfully, destination byte k
\* equals file byte offset + k for every k in [0, size), on the CPU path and
\* on the device path, under every interleaving.
C1_DestEqualsFile == Returned => \A k \in Bytes : Dest[k] = FileByte(offset + k)

C1_Witness ==
    /\ Returned /\ ~target_cpu /\ size = MaxSize /\ offset = MaxOffset
    /\ \A w \in CopyIdx : Len(copies[w]) >= 1

\* C2: on the device path every pushed range is consumed exactly once: no
\* range is popped or copied twice, every issued copy covers exactly one
\* pushed range that the issuing worker popped, and when the call returns
\* successfully every pushed range has been copied exactly once and the
\* copy has completed.
C2_ConsumedExactlyOnce ==
    /\ \A x \in PopIdx :
          /\ popped[x[1]][x[2]] \in PushedRanges
          /\ PopCount(popped[x[1]][x[2]]) = 1
    /\ \A x \in CopyIdxs :
          /\ copies[x[1]][x[2]] \in PushedRanges
          /\ CopyCount(copies[x[1]][x[2]]) = 1
          /\ \E j \in 1 .. Len(popped[x[1]]) : popped[x[1]][j] = copies[x[1]][x[2]]
    /\ (Returned /\ CopyStarted) =>
          /\ \A rg \in PushedRanges : CopyCount(rg) = 1 /\ PopCount(rg) = 1
          /\ AllCopiesComplete
          /\ dq = <<>>

C2_Witness ==
    /\ Returned /\ CopyStarted
    /\ Cardinality(PushedRanges) >= 3
    /\ \A w \in CopyIdx : Len(copies[w]) >= 1

Overlap(p, q) == p[1] < q[2] /\ q[1] < p[2]
NoOverlap == \A x, y \in PushIdx :
    x # y => ~Overlap(emitted[x[1]][x[2]], emitted[y[1]][y[2]])
InSegment == \A rg \in PushedRanges : 0 <= rg[1] /\ rg[1] < rg[2] /\ rg[2] <= size
Covered == {k \in Bytes : \E rg \in PushedRanges : rg[1] <= k /\ k < rg[2]}

\* C3, as stated: in every run in which no read fails (no load thread fails
\* to open or read the file), the ranges pushed onto the queue do not
\* overlap and their union is exactly [0, size).
C3_Original ==
    /\ NoOverlap
    /\ InSegment
    /\ (LoadersJoined /\ faults \cap {"open", "read"} = {}) => Covered = Bytes

\* C3, amended: the pushed ranges never overlap and lie in [0, size); in
\* every run in which the failure flag is never set (no open, read or copy
\* failure) their union is exactly [0, size) once the load threads have
\* ended.
C3_PartitionComplete ==
    /\ NoOverlap
    /\ InSegment
    /\ (LoadersJoined /\ faults = {}) => Covered = Bytes

C3_Witness ==
    /\ LoadersJoined /\ faults = {}
    /\ size = MaxSize
    /\ \E i \in ThreadIdx : Len(emitted[i]) >= 2

\* C4: stloader_read returns successfully only if no failure was ever
\* flagged; a flagged failure is reported after the threads that could
\* flag it have all been joined.
C4_AllOrNothing ==
    /\ Returned => (faults = {} /\ ~load_failed /\ ~read_failed /\ pending = {})
    /\ (Finished /\ faults # {}) => Threw
    /\ pc = "threw_io" => (LoadThreadsEnded /\ CopyWorkersEnded /\ load_failed)
    /\ pc = "threw_read" => (read_failed /\ \A i \in ThreadIdx : p1pc[i] = "done")

C4_Witness ==
    /\ pc = "threw_io"
    /\ faults = {"copy"}
    /\ \E w \in CopyIdx : Len(copies[w]) >= 1

\* C5: in every terminal state of the call an allocated staging buffer has
\* been freed.
C5_StagingFreedOnExit == (Finished /\ allocated) => freed

\* C6: under fair scheduling every call returns or throws, with every
\* started thread ended; and once done_loading is set every copy worker
\* leaves its wait and ends.
C6_EventuallyReturns ==
    /\ <>(Finished /\ LoadThreadsEnded /\ CopyWorkersEnded
                   /\ \A i \in ThreadIdx : p1pc[i] \in {"idle", "done"})
    /\ (done_loading ~> CopyWorkersEnded)

\* Every copy worker is blocked in cv.wait when the load threads have ended:
\* only the orchestrator's notify_all can release them.
C6_Witness ==
    /\ pc = "join_load" /\ LoadJoined
    /\ size = MaxSize /\ dq = <<>>
    /\ \A w \in CopyIdx : cwpc[w] = "blocked" /\ Len(copies[w]) >= 1

C8_EachByteReadOnce == \A k \in Bytes : nread[k] <= 1

\* C9: on the CPU path no staging buffer is allocated, no copy worker is
\* started, no stream is created, nothing is popped, no copy is issued and
\* nothing is freed; copy workers run only for a target that is not on the
\* CPU.
C9_ZeroCopyPath ==
    /\ target_cpu =>
          /\ ~allocated /\ ~freed
          /\ \A w \in CopyIdx :
                /\ cwpc[w] = "idle" /\ stream[w] = "none"
                /\ copies[w] = <<>> /\ popped[w] = <<>>
          /\ pc \notin {"free", "devsync", "threw_alloc"}
          /\ dev = [k \in Bytes |-> Junk]
    /\ (\E w \in CopyIdx : cwpc[w] # "idle") => ~target_cpu

C9_Witness ==
    /\ target_cpu /\ Returned /\ size = MaxSize
    /\ dq # <<>>

\* Element (rr, cc) has been written by the call.
Written(rr, cc) == rpc = "done" \/ rr < r \/ (rr = r /\ rpc = "col" /\ cc < c)

\* C10: tensor_remap gathers every row through the index: once written,
\* element (r, c) holds what element (r, index[c]) held before the call, and
\* until it is written it holds its own value of before the call; so after
\* the call out[r][c] = in[r][index[c]] for every r and c.
C10_DenseGather ==
    rpc \in {"row", "col", "done"} =>
        \A rr \in 0 .. (rows - 1) : \A cc \in 0 .. (cols - 1) :
            tensor[rr * cols + cc] =
                IF Written(rr, cc) THEN tensor0[rr * cols + index[cc]]
                ELSE tensor0[rr * cols + cc]

\* The documented example: one row 10 .. 17 with the index 7 .. 0 gives
\* 17 .. 10.
C10_Witness ==
    /\ rpc = "done"
    /\ rows = 1 /\ cols = 8
    /\ tensor = [p \in 0 .. 7 |-> 17 - p]

\* Logical element j of row rr of a packed matrix t: field j % 8 of word
\* j / 8 of the row.
Elem4(t, rr, j) == t[rr * cols + j \div 8][j % 8]

\* Output word (rr, cc / 8) has been written by the call.
Written4(rr, cc) ==
    rpc = "done4" \/ rr < r \/ (rr = r /\ rpc = "word4" /\ cc \div 8 < c \div 8)

\* C11: tensor_remap_4bit permutes logical elements: once its word is
\* written, element c of row r (field c % 8 of word c / 8) holds what
\* element index[c] of the same row held before the call, and until then it
\* holds its own value of before the call; so after the call the matrix is
\* unpack, gather out[c] = in[index[c]], repack.
C11_PackedGather ==
    rpc \in {"row4", "word4", "done4"} =>
        \A rr \in 0 .. (rows - 1) : \A cc \in 0 .. (cols4 - 1) :
            Elem4(tensor, rr, cc) =
                IF Written4(rr, cc) THEN Elem4(tensor0, rr, index[cc])
                ELSE Elem4(tensor0, rr, cc)

\* A gather across the words of a row (C11_Witness), and the documented
\* example (C11_Example): one word of fields 1 .. 8 with the index 7 .. 0
\* gives the fields 8 .. 1.
C11_Witness ==
    /\ rpc = "done4" /\ rows = MaxRows /\ cols = 2
    /\ \A j \in 0 .. 7 : index[j] >= 8
    /\ \A j \in 8 .. 15 : index[j] < 8
    /\ tensor # tensor0

C11_Example ==
    /\ rpc = "done4" /\ rows = 1 /\ cols = 1
    /\ tensor0[0] = [k \in Fields |-> k + 1]
    /\ index = [j \in 0 .. 7 |-> 7 - j]
    /\ tensor[0] = [k \in Fields |-> 8 - k]

IsIdentity == \A j \in DOMAIN index : index[j] = j

\* C12: with the identity index both tensor_remap and tensor_remap_4bit
\* leave the matrix as it was, at every step of the call and after it.
C12_IdentityNoOp ==
    IsIdentity => tensor = tensor0

C12_Witness ==
    /\ IsIdentity /\ rpc = "done4"
    /\ rows = MaxRows /\ cols = 2
    /\ \E p, q \in DOMAIN tensor : tensor[p] # tensor[q]

C12_WitnessDense ==
    /\ IsIdentity /\ rpc = "done"
    /\ rows = MaxRows /\ cols = MaxCols
    /\ \E p, q \in DOMAIN tensor : tensor[p] # tensor[q]

\* The blocks of the strided assignment of worker i: block j starts at
\* i * B + j * T * B and ends at most B bytes later.
StrideStart(i, j) == i * STLOADER_BLOCK_SIZE + j * STLOADER_THREADS * STLOADER_BLOCK_SIZE
StrideBlock(i, j) == <<StrideStart(i, j), Min(StrideStart(i, j) + STLOADER_BLOCK_SIZE, size)>>
StrideCount(i) == Cardinality({j \in 0 .. MaxSize : StrideStart(i, j) < size})

\* The load threads follow the strided assignment: thread i exists only if
\* i * B < size, what it has pushed is the first blocks of its assignment in
\* ascending order, and it has pushed all of them when it ends in a run
\* without failure.
StridedLoadThreads ==
    \A i \in ThreadIdx :
        /\ ldpc[i] # "idle" => i * STLOADER_BLOCK_SIZE < size
        /\ Len(emitted[i]) <= StrideCount(i)
        /\ \A j \in 1 .. Len(emitted[i]) : emitted[i][j] = StrideBlock(i, j - 1)
        /\ (ldpc[i] = "done" /\ faults = {}) => Len(emitted[i]) = StrideCount(i)

\* Every thread that reads the segment is one of the strided workers: it
\* exists only if i * B < size, and the range it is about to read is a block
\* of its strided assignment.
NoContiguousReader ==
    \A i \in ThreadIdx :
        /\ p1pc[i] # "idle" => i * STLOADER_BLOCK_SIZE < size
        /\ p1pc[i] = "opened" =>
              \E j \in 0 .. MaxSize : <<ChunkStart(i), ChunkEnd(i)>> = StrideBlock(i, j)

\* C13: reader thread i is started only if i * B < size and reads and
\* publishes exactly the blocks of its strided assignment, in ascending
\* order; no thread reads a contiguous slice of the segment instead.
C13_StridedAssignment == StridedLoadThreads /\ NoContiguousReader

\* C14: done_loading is set only after every load thread has ended and
\* stays set; nothing is pushed onto the deque once it is set, so a copy
\* worker that leaves its loop on "deque empty and done_loading" leaves
\* nothing behind.
C14_DoneAfterLoaders ==
    /\ [](done_loading => LoadThreadsEnded)
    /\ [][done_loading =>
            /\ done_loading'
            /\ emitted' = emitted
            /\ Len(dq') <= Len(dq)]_vars
    /\ []((done_loading /\ ~FlagStored /\ CopyStarted /\ CopyWorkersEnded) => dq = <<>>)

C14_Witness ==
    /\ done_loading /\ faults = {} /\ size = MaxSize
    /\ cwpc[0] = "done" /\ cwpc[1] = "copy"
    /\ Cardinality(PushedRanges) >= 3

C15_Undrained == pc = "threw_io" /\ CopyStarted /\ dq # <<>>

\* Some copy worker has been started.
TransfersStarted == \E w \in CopyIdx : cwpc[w] # "idle"

\* Every byte of the segment has been read from the file, and the threads
\* that read it have been joined, before any copy worker exists.
ReadsWaitedBeforeTransfers ==
    TransfersStarted =>
        /\ \A i \in ThreadIdx : p1pc[i] = "done"
        /\ \A k \in Bytes : nread[k] >= 1
        /\ ~read_failed

\* C16: the copy workers are started before any read of the segment has been
\* waited for: at the step that starts them some byte of a non-empty
\* segment has not yet been read from the file by any thread.
C16_TransfersBeforeReads ==
    [][(size > 0 /\ ~TransfersStarted /\ TransfersStarted') =>
            \E k \in Bytes : nread[k] = 0]_vars

\* C17: a copy worker's stream (the local variable of line 135; copies[w]
\* are the copies issued on it, by worker w only) exists exactly while the
\* worker runs: it is created when the worker starts, every copy is issued
\* on it while it is live, and whichever way the worker leaves its loop the
\* stream is destroyed, after all its copies have completed, in the step
\* that ends the thread.
C17_StreamLifecycle ==
    /\ [](\A w \in CopyIdx :
            /\ stream[w] = "live" <=> cwpc[w] \notin {"idle", "done"}
            /\ stream[w] = "none" <=> cwpc[w] = "idle"
            /\ stream[w] = "destroyed" => ncomplete[w] = Len(copies[w]))
    /\ [][\A w \in CopyIdx :
            /\ copies'[w] # copies[w] => (stream[w] = "live" /\ stream'[w] = "live")
            /\ (stream[w] # "destroyed" /\ stream'[w] = "destroyed") =>
                  (cwpc[w] = "sync" /\ ncomplete[w] = Len(copies[w]) /\ cwpc'[w] = "done")
            /\ stream[w] = "destroyed" => stream'[w] = "destroyed"]_vars

\* Both workers have issued copies and ended: worker 0 after its own copy
\* error (it still holds the range of the failed copy), worker 1 at the
\* wait.
C17_Witness ==
    /\ cwpc[0] = "done" /\ cur[0] # NoRange /\ Len(copies[0]) >= 1
    /\ cwpc[1] = "done" /\ cur[1] = NoRange /\ Len(copies[1]) >= 1
    /\ stream[0] = "destroyed" /\ stream[1] = "destroyed"

LoadedRanges == {loaded[i][j] : <<i, j>> \in {x \in ThreadIdx \X (1 .. MaxSize + 1) : x[2] <= Len(loaded[x[1]])}}
PoppedRanges == {popped[x[1]][x[2]] : x \in PopIdx}
CopiedRanges == {copies[x[1]][x[2]] : x \in CopyIdxs}
QueuedRanges == {dq[j] : j \in 1 .. Len(dq)}

\* C18: a range is pushed only by the load thread that has just read exactly
\* that range in full, and a copy is issued only for a popped range: every
\* range that is queued, popped, held by a worker or copied is a block that
\* a load thread had read in full before.  The block at which a load thread
\* stands (the one whose read failed, or was never attempted) is not among
\* the ranges the thread has pushed.
C18_ReadBeforeCopy ==
    /\ PushedRanges \subseteq LoadedRanges
    /\ QueuedRanges \subseteq PushedRanges
    /\ PoppedRanges \subseteq PushedRanges
    /\ CopiedRanges \subseteq PoppedRanges
    /\ \A w \in CopyIdx : cwpc[w] = "copy" => cur[w] \in PoppedRanges
    /\ \A i \in ThreadIdx :
          /\ emitted[i] = IF ldpc[i] = "push"
                          THEN SubSeq(loaded[i], 1, Len(loaded[i]) - 1)
                          ELSE loaded[i]
          /\ \A j \in 1 .. Len(emitted[i]) : emitted[i][j][1] < pos_a[i]

\* A load thread has ended on a short read of its second block; its first
\* block has been copied.
C18_Witness ==
    /\ "read" \in faults /\ size = MaxSize
    /\ ldpc[0] = "done" /\ Len(emitted[0]) = 1 /\ pos_a[0] = StrideStart(0, 1)
    /\ emitted[0][1] \in CopiedRanges

\* No thread of the call is running and no copy is outstanding.
Quiescent ==
    /\ \A i \in ThreadIdx : p1pc[i] \in {"idle", "done"}
    /\ LoadThreadsEnded
    /\ CopyWorkersEnded
    /\ \A w \in CopyIdx : ncomplete[w] = Len(copies[w]) /\ stream[w] # "live"

\* C19: when free(load_buffer) is called every reader thread and every copy
\* worker has ended and every copy that was issued has completed; after the
\* free nothing is read into the buffer, no copy is issued and no copy
\* completes.
C19_NoUseAfterFree ==
    /\ []((pc = "free" \/ freed) => Quiescent)
    /\ [][freed =>
            /\ host' = host /\ dev' = dev /\ nread' = nread
            /\ copies' = copies /\ ncomplete' = ncomplete]_vars

C19_Witness ==
    /\ freed /\ size = MaxSize
    /\ \A w \in CopyIdx : Len(copies[w]) >= 1

\* C20: every file handle a reader thread opened is closed when the thread
\* has ended, whichever way it ended, and no handle is open when the call
\* has returned or thrown.
C20_HandlesClosed ==
    /\ \A i \in ThreadIdx : p1pc[i] = "done" => P1(i) \notin handles
    /\ \A i \in ThreadIdx : ldpc[i] = "done" => Ld(i) \notin handles
    /\ Finished => handles = {}

\* The handles of the parallel file read are closed on every path, and a
\* load thread that ends at its loop test (end of its blocks, or load_failed
\* seen) has closed its handle: a handle stays open only in a load thread
\* that ended on its own failed read.
HandlesClosedUnlessReadError ==
    /\ \A i \in ThreadIdx : p1pc[i] = "done" => P1(i) \notin handles
    /\ \A i \in ThreadIdx :
          (ldpc[i] = "done" /\ Ld(i) \in handles) =>
              ("read" \in faults /\ pos_a[i] < size)

=============================================================================
